---- MODULE Spec2Model ----
(***************************************************************************)
(* Model of private_pypi/utils.py: the lock-guarded state store built on   *)
(* filelock.FileLock (locked_read_file, locked_read_toml,                  *)
(* locked_write_file, locked_write_toml, locked_copy_file,                 *)
(* file_lock_is_busy, LockedFileLikeObject.write) and the plain            *)
(* write_toml helper, run by several OS processes on one lock path.        *)
(*                                                                         *)
(* A file is a sequence of blocks.  A block is one line of text, and is    *)
(* also the unit in which a buffered writer flushes to the file, so a      *)
(* write of n blocks is n separate steps.  Time is counted in hundredths   *)
(* of a second; a waiting process polls the lock every PollIntervall.      *)
(***************************************************************************)
EXTENDS Integers, Sequences, FiniteSets, TLC

(* ----------------------------- bounds --------------------------------- *)

\* Number of OS processes using the lock path.
NumProcs == 3

\* Total number of calls the processes make in one behaviour.
MaxCalls == 3

\* Number of those calls that are calls of the plain write_toml.
MaxPlainCalls == 1

\* Total number of appends where only streaming writers run.
MaxAppends == 4

\* The random parts a Fernet token can carry.
NumIVs == 2

\* The restarts of the process that imports the module.
MaxRestarts == 2

\* The bytes one fin.read takes, scaled down from the 64 KiB of the code.
BlockSize == 2

\* The longest content of a file that is hashed.
MaxFileLen == 4

Procs == 1..NumProcs

(* --------------------------- documents -------------------------------- *)

\* A structured document (a Python dict as toml.dumps takes it) is a
\* sequence of entries in key order; an entry is a scalar or a sub-table.
Scalar(k, v) == [key |-> k, tab |-> FALSE, val |-> v, sub |-> <<>>]

Table(k, d) == [key |-> k, tab |-> TRUE, val |-> 0, sub |-> d]

\* A line of text.  "kv": key = val;  "hdr": [a.b];  "raw": text that is
\* not TOML;  "nul": the zero bytes of a hole left by a write past the end.
KV(k, v) == [kind |-> "kv", path |-> <<k>>, val |-> v]

Hdr(p) == [kind |-> "hdr", path |-> p, val |-> 0]

Raw(s) == [kind |-> "raw", path |-> <<s>>, val |-> 0]

Nul == [kind |-> "nul", path |-> <<>>, val |-> 0]

RECURSIVE Concat(_)
\* Concatenation of the sequences ss[1], ss[2], ...
Concat(ss) ==
  IF ss = <<>> THEN <<>> ELSE Head(ss) \o Concat(Tail(ss))

\* toml encoder dump_sections, first result: the lines of the entries of o
\* that are not tables, in key order.
dump_retstr(o) ==
  LET line(e) == IF e.tab THEN <<>> ELSE <<KV(e.key, e.val)>>
  IN  Concat([i \in 1..Len(o) |-> line(o[i])])

\* toml encoder dump_sections, second result: the sub-tables of o in key
\* order, each named by its dotted path below sup.
dump_retdict(o, sup) ==
  LET sect(e) == IF e.tab THEN <<[path |-> Append(sup, e.key), body |-> e.sub]>>
                 ELSE <<>>
  IN  Concat([i \in 1..Len(o) |-> sect(o[i])])

RECURSIVE dump_level(_)
\* The loop of toml.dumps over one level of sections: a section prints
\* its header when it has scalar lines or is empty, and its sub-tables
\* are queued for the next round, so tables come out breadth-first.
dump_level(sections) ==
  IF sections = <<>> THEN <<>>
  ELSE LET emit(s) ==
             LET addtoretval == dump_retstr(s.body)
                 addtosections == dump_retdict(s.body, s.path)
             IN  IF addtoretval # <<>> \/ addtosections = <<>>
                 THEN <<Hdr(s.path)>> \o addtoretval
                 ELSE <<>>
           next(s) == dump_retdict(s.body, s.path)
       IN  Concat([i \in 1..Len(sections) |-> emit(sections[i])])
             \o dump_level(Concat([i \in 1..Len(sections) |-> next(sections[i])]))

RECURSIVE toml_dumps_flat(_)
\* Mutant of toml_dumps: the section headers are left out.
toml_dumps_flat(o) ==
  LET line(e) == IF e.tab THEN toml_dumps_flat(e.sub) ELSE <<KV(e.key, e.val)>>
  IN  Concat([i \in 1..Len(o) |-> line(o[i])])

\* toml.dumps(struct): the scalars of the top table, then the sections.
toml_dumps(o) == dump_retstr(o) \o dump_level(dump_retdict(o, <<>>))

\* Position of key k in document d, 0 when d has no such key.
IndexOf(d, k) ==
  IF \E i \in 1..Len(d) : d[i].key = k
  THEN CHOOSE i \in 1..Len(d) : d[i].key = k
  ELSE 0

DecodeError == [ok |-> FALSE, doc |-> <<>>]

Decoded(d) == [ok |-> TRUE, doc |-> d]

RECURSIVE MkTable(_, _)
\* The tables along path, created in d where they do not exist yet.
MkTable(d, path) ==
  IF path = <<>> THEN Decoded(d)
  ELSE LET i == IndexOf(d, Head(path)) IN
       IF i = 0
       THEN Decoded(Append(d, Table(Head(path), MkTable(<<>>, Tail(path)).doc)))
       ELSE IF ~d[i].tab THEN DecodeError
       ELSE LET r == MkTable(d[i].sub, Tail(path)) IN
            IF r.ok THEN Decoded([d EXCEPT ![i].sub = r.doc]) ELSE DecodeError

RECURSIVE PutKV(_, _, _, _)
\* key = val added to the table at path of d; a key given twice is an error.
PutKV(d, path, k, v) ==
  IF path = <<>>
  THEN IF IndexOf(d, k) # 0 THEN DecodeError ELSE Decoded(Append(d, Scalar(k, v)))
  ELSE LET i == IndexOf(d, Head(path)) IN
       IF i = 0 \/ ~d[IF i = 0 THEN 1 ELSE i].tab THEN DecodeError
       ELSE LET r == PutKV(d[i].sub, Tail(path), k, v) IN
            IF r.ok THEN Decoded([d EXCEPT ![i].sub = r.doc]) ELSE DecodeError

RECURSIVE load_lines(_, _, _, _)
\* The line loop of toml.loads: d is the document so far, cur the table
\* the last header opened, seen the headers already given.
load_lines(lines, d, cur, seen) ==
  IF lines = <<>> THEN Decoded(d)
  ELSE LET l == Head(lines) IN
       IF l.kind = "hdr"
       THEN IF l.path \in seen THEN DecodeError
            ELSE LET r == MkTable(d, l.path) IN
                 IF r.ok THEN load_lines(Tail(lines), r.doc, l.path, seen \cup {l.path})
                 ELSE DecodeError
       ELSE IF l.kind = "kv"
       THEN LET r == PutKV(d, cur, l.path[1], l.val) IN
            IF r.ok THEN load_lines(Tail(lines), r.doc, cur, seen) ELSE DecodeError
       ELSE DecodeError

\* toml.loads(text): the document, or a decode error.
toml_loads(text) == load_lines(text, <<>>, <<>>, {})

RECURSIVE AsMapping(_)
\* The document as an unordered mapping (what == on Python dicts compares).
AsMapping(d) ==
  {[key |-> d[i].key, tab |-> d[i].tab, val |-> d[i].val,
    sub |-> AsMapping(d[i].sub)] : i \in 1..Len(d)}

(* ------------------------------ codec --------------------------------- *)

\* Python objects given to encrypt_object_to_base64, and returned by
\* decrypt_base64_to_object.  t is the type; a dict holds pairs.
PyObj(t, b, n, str, items) == [t |-> t, b |-> b, n |-> n, s |-> str, items |-> items]

PyNone == PyObj("None", FALSE, 0, "", <<>>)

PyBool(b) == PyObj("bool", b, 0, "", <<>>)

PyInt(n) == PyObj("int", FALSE, n, "", <<>>)

PyStr(str) == PyObj("str", FALSE, 0, str, <<>>)

PyList(xs) == PyObj("list", FALSE, 0, "", xs)

PyTuple(xs) == PyObj("tuple", FALSE, 0, "", xs)

PyPair(key, val) == PyObj("pair", FALSE, 0, "", <<key, val>>)

PyDict(pairs) == PyObj("dict", FALSE, 0, "", pairs)

PySet(xs) == PyObj("set", FALSE, 0, "", xs)

\* The values of a JSON document, the text json.dumps writes.
JNull == PyObj("null", FALSE, 0, "", <<>>)

JError == PyObj("error", FALSE, 0, "", <<>>)

\* json.dumps writes a key of a dict that is not a str as the str of it;
\* a key that is no str, int, bool or None is a TypeError.
json_key(key) ==
  CASE key.t = "str" -> PyObj("string", FALSE, 0, key.s, <<>>)
    [] key.t = "int" -> PyObj("string", FALSE, 0, ToString(key.n), <<>>)
    [] key.t = "bool" -> PyObj("string", FALSE, 0, IF key.b THEN "true" ELSE "false", <<>>)
    [] key.t = "None" -> PyObj("string", FALSE, 0, "null", <<>>)
    [] OTHER -> JError

RECURSIVE json_encode(_)
\* json.dumps(obj): lists and tuples are written as arrays, dicts as
\* objects; an object of another type is not JSON serializable: TypeError.
json_encode(o) ==
  LET xs == [i \in 1..Len(o.items) |-> json_encode(o.items[i])]
      bad == \E i \in 1..Len(o.items) : xs[i].t = "error"
  IN  CASE o.t = "None" -> JNull
        [] o.t = "bool" -> PyObj("boolean", o.b, 0, "", <<>>)
        [] o.t = "int" -> PyObj("number", FALSE, o.n, "", <<>>)
        [] o.t = "str" -> PyObj("string", FALSE, 0, o.s, <<>>)
        [] o.t \in {"list", "tuple"} ->
             IF bad THEN JError ELSE PyObj("array", FALSE, 0, "", xs)
        [] o.t = "dict" ->
             IF bad THEN JError ELSE PyObj("object", FALSE, 0, "", xs)
        [] o.t = "pair" ->
             IF json_key(o.items[1]).t = "error" \/ xs[2].t = "error" THEN JError
             ELSE PyObj("member", FALSE, 0, "", <<json_key(o.items[1]), xs[2]>>)
        [] OTHER -> JError

RECURSIVE json_decode(_)
\* json.loads(text): arrays come back as lists, objects as dicts whose
\* keys are strs.
json_decode(j) ==
  LET xs == [i \in 1..Len(j.items) |-> json_decode(j.items[i])]
  IN  CASE j.t = "null" -> PyNone
        [] j.t = "boolean" -> PyBool(j.b)
        [] j.t = "number" -> PyInt(j.n)
        [] j.t = "string" -> PyStr(j.s)
        [] j.t = "array" -> PyList(xs)
        [] j.t = "object" -> PyDict(xs)
        [] OTHER -> PyPair(xs[1], xs[2])

\* Bytes: the encoding of a JSON text, or bytes that are no JSON text.
Dumped(j) == [json |-> TRUE, doc |-> j]

NotJson == [json |-> FALSE, doc |-> JNull]

\* zlib.compress(dumped), and bytes that are not a zlib stream.
zlib_compress(dumped) == [z |-> TRUE, raw |-> dumped]

Uncompressed(dumped) == [z |-> FALSE, raw |-> dumped]

\* Mutant of fernet_encrypt: dumped is encrypted, not compressed_dumped.
fernet_encrypt_dumped(key, iv, data) ==
  [mac |-> key, iv |-> iv, data |-> Uncompressed(data.raw)]

\* Fernet(key).encrypt(data): the token is signed with the key; iv stands
\* for the random bytes and the time the token carries.
fernet_encrypt(key, iv, data) == [mac |-> key, iv |-> iv, data |-> data]

\* A token with a byte changed: its signature fits no key.
Corrupted(tok) == [tok EXCEPT !.mac = 0]

\* base64.b64encode(data).decode(): a str.  junk: the text also holds
\* characters outside the base64 alphabet; pad: its padding is right.
b64encode(tok) == [str |-> TRUE, pad |-> TRUE, junk |-> FALSE, tok |-> tok]

\* An argument of decrypt_base64_to_object that is not a str.
NoText == [str |-> FALSE, pad |-> FALSE, junk |-> FALSE,
           tok |-> Corrupted(fernet_encrypt(0, 0, Uncompressed(NotJson)))]

\* The result of a call of the codec: an exception that escaped, or the
\* value returned; none tells the None of the except clause.
CodecRaised == [raised |-> TRUE, none |-> FALSE, val |-> PyNone, text |-> NoText]

CodecNone == [CodecRaised EXCEPT !.raised = FALSE, !.none = TRUE]

CodecText(text) == [CodecRaised EXCEPT !.raised = FALSE, !.text = text]

CodecValue(val) == [CodecRaised EXCEPT !.raised = FALSE, !.val = val]

\* Mutant of Caught: the clause names ValueError instead of Exception.
CaughtValueError(e) == e \in {"binascii.Error", "JSONDecodeError"}

\* except Exception: every error the stages raise is an Exception.
Caught(e) ==
  e \in {"TypeError", "AttributeError", "binascii.Error", "InvalidToken",
         "zlib.error", "JSONDecodeError"}

\* The except clause of both functions, for an error e raised in the try.
Except(e) == IF Caught(e) THEN CodecNone ELSE CodecRaised

\* encrypt_object_to_base64(obj), with the module's key.
encrypt_object_to_base64(key, iv, obj) ==
  LET j == json_encode(obj)
  IN  IF j.t = "error" THEN Except("TypeError")
      ELSE CodecText(b64encode(fernet_encrypt(key, iv, zlib_compress(Dumped(j)))))

\* decrypt_base64_to_object(text), with the module's key.  b64decode
\* drops the characters outside the alphabet and raises on wrong padding;
\* Fernet raises InvalidToken on a token its key did not sign.
decrypt_base64_to_object(key, text) ==
  IF ~text.str THEN Except("AttributeError")
  ELSE IF ~text.pad THEN Except("binascii.Error")
  ELSE IF text.tok.mac # key THEN Except("InvalidToken")
  ELSE IF ~text.tok.data.z THEN Except("zlib.error")
  ELSE IF ~text.tok.data.raw.json THEN Except("JSONDecodeError")
  ELSE CodecValue(json_decode(text.tok.data.raw.doc))

(* ----------------------------- inputs --------------------------------- *)

\* Seconds are counted in hundredths.  filelock polls every 0.05 s.
PollIntervall == 5

\* The wait of file_lock_is_busy: acquire(timeout=0.1).
BusyTimeout == 10

\* timeout=-1, the default of every locked_* function: wait for ever.
Unbounded == -1

\* The timeouts callers pass: the default, and zero (one poll only).  The
\* wait of several polls is that of file_lock_is_busy.
Timeouts == {Unbounded, 0}

\* Bounded timeouts of callers that wait: one poll, and two.
WaitTimeouts == {0, PollIntervall}

\* The files: the state file the lock path guards, and its snapshot.
Paths == {"doc", "bak"}

\* Texts given to locked_write_file: two blocks of text that is not TOML.
Texts == {<<Raw("b"), Raw("c")>>}

\* Documents given to locked_write_toml and write_toml: scalars only,
\* and a table that comes before a scalar.
Docs == {<<Scalar("a", 1)>>, <<Table("t", <<Scalar("x", 1)>>), Scalar("a", 2)>>}

\* The content of n bytes written to a file that is hashed.
HashText(n) == [i \in 1..n |-> Raw(ToString(10 * n + i))]

\* Contents of hashed files: empty, shorter than a block, a block, more.
HashTexts == {HashText(n) : n \in 0..MaxFileLen}

\* Objects given to encrypt_object_to_base64: JSON values flat and nested,
\* a tuple, a dict with an int for a key, and a set.
CodecValues ==
  { PyNone, PyBool(TRUE), PyInt(1), PyStr("s"),
    PyList(<<PyInt(1), PyStr("s")>>),
    PyList(<<PyList(<<PyInt(1)>>), PyDict(<<PyPair(PyStr("k"), PyNone)>>)>>),
    PyDict(<<PyPair(PyStr("k"), PyList(<<PyInt(1)>>)), PyPair(PyStr("m"), PyInt(2))>>),
    PyTuple(<<PyInt(1), PyInt(2)>>),
    PyDict(<<PyPair(PyInt(1), PyStr("s"))>>),
    PySet(<<PyInt(1)>>) }

\* What the text given to decrypt_base64_to_object is: a blob this module
\* made, as it is, with characters outside the alphabet added, with its
\* padding cut, or with a byte of its token changed; no str at all; or
\* the base64 of a token of the current key over bytes that do not
\* decompress, or that decompress to no JSON text.
TextKinds == {"blob", "junk", "badpad", "corrupt", "nonstr", "notz", "notjson"}

(* ------------------------------ state --------------------------------- *)

VARIABLES
  is_locked,  \* is_locked[p]: p's FileLock object holds the flock on lock_path
  files,      \* files[f]: [ex |-> the file exists, data |-> its blocks]
  sink,       \* what the write_func of the streaming sinks has received
  pc,         \* pc[p]: where process p is in its call
  op,         \* op[p]: the call process p is making, with its arguments
  k,          \* k[p]: the sleeps p has made in FileLock.acquire (a local of it)
  off,        \* off[p]: the offset of the file p has open for writing
  busy,       \* busy[p]: the local `busy` of file_lock_is_busy
  ret,        \* ret[p]: what p's last call returned
  calls,      \* number of calls made so far
  plain,      \* number of calls of the plain write_toml made so far
  prov,       \* history: prov[f] tells whose write alone made files[f]
  released,   \* history: the lock has been held and released
  afterRelease, \* history: p made its call with the lock released, and free
  freeAll,    \* history: no other process held the lock during p's wait
  heldAll,    \* history: another process held the lock all through p's wait
  sha,        \* sha[p]: the locals of p's git_hash_sha: size, sha1_algo, fin
  dirty,      \* history: the state file has changed since p read its size
  codec       \* the codec: the module's key, and the last call made of it

vars == <<is_locked, files, sink, pc, op, k, off, busy, ret, calls, plain, prov,
          released, afterRelease, freeAll, heldAll, sha, dirty, codec>>

Absent == [ex |-> FALSE, data |-> <<>>]

File(d) == [ex |-> TRUE, data |-> d]

NoCall == [name |-> "none", timeout |-> Unbounded, path |-> "doc",
           src |-> "doc", text |-> <<>>, doc |-> <<>>]

MkCall(n, t, f, s, x, d) ==
  [name |-> n, timeout |-> t, path |-> f, src |-> s, text |-> x, doc |-> d]

\* Return values.  kind tells the shape: "read" is (status, text or None),
\* "struct" is (status, struct or None), "bool", "int", and "none" for a
\* function that returns nothing.
NoRet == [kind |-> "noret", status |-> FALSE, absent |-> FALSE,
          text |-> <<>>, doc |-> <<>>]

ReadRet(st, ab, x) == [kind |-> "read", status |-> st, absent |-> ab,
                       text |-> x, doc |-> <<>>]

StructRet(st, ab, d) == [kind |-> "struct", status |-> st, absent |-> ab,
                         text |-> <<>>, doc |-> d]

BoolRet(b) == [kind |-> "bool", status |-> b, absent |-> FALSE,
               text |-> <<>>, doc |-> <<>>]

IntRet == [kind |-> "int", status |-> TRUE, absent |-> FALSE,
           text |-> <<>>, doc |-> <<>>]

NoneRet == [kind |-> "none", status |-> TRUE, absent |-> FALSE,
            text |-> <<>>, doc |-> <<>>]

\* prov[f]: who truncated f and has alone written it since (nobody when
\* others have written too, or the write is finished), the call that
\* did, and whether it has closed the file.
NoProv == [who |-> {}, name |-> "none", text |-> <<>>, doc |-> <<>>, fin |-> FALSE]

LockedOps == {"locked_read_file", "locked_read_toml", "locked_write_file",
              "locked_write_toml", "locked_copy_file"}

ReadOps == {"locked_read_file", "locked_read_toml"}

WriteOps == {"locked_write_file", "locked_write_toml", "write_toml"}

\* Mutant of CanAcquire: the readers do not wait for the lock.
CanAcquireReaders(p) == op[p].name \in ReadOps \/ ~(\E q \in Procs \ {p} : is_locked[q])

\* Some process other than p holds the flock.
OtherLocked(p) == \E q \in Procs \ {p} : is_locked[q]

\* Mutant of CanAcquire: the poll does not look at the other holders.
CanAcquireAlways(p) == TRUE

\* A poll of FileLock.acquire: flock(LOCK_EX | LOCK_NB) succeeds when no
\* other open file description holds the lock.
CanAcquire(p) == ~OtherLocked(p)

\* Mutant of Expired: -1 is taken for a time like any other.
ExpiredNoSentinel(p) == k[p] * PollIntervall >= op[p].timeout

\* FileLock.acquire's test after a failed poll: timeout >= 0 and the
\* time waited (k sleeps and a little more) is over the timeout.
Expired(p) == op[p].timeout >= 0 /\ k[p] * PollIntervall >= op[p].timeout

\* FileLock.release, also the exit of a with block: p's own lock, if held.
Released(p) == [is_locked EXCEPT ![p] = FALSE]

\* A write of block b at offset o of a file: in place, at the end, or past
\* the end, which leaves a hole of zero bytes.
RECURSIVE Holes(_)
Holes(n) == IF n <= 0 THEN <<>> ELSE <<Nul>> \o Holes(n - 1)

WriteAt(d, o, b) ==
  IF o < Len(d) THEN [d EXCEPT ![o + 1] = b]
  ELSE d \o Holes(o - Len(d)) \o <<b>>

\* The history variables after a step.  A wait is the time a process
\* spends in "acquire"; prov follows truncations, writes and closes.
Observe ==
  /\ released' = (released \/ \E r \in Procs : is_locked[r] /\ ~is_locked'[r])
  /\ afterRelease' = [q \in Procs |->
       IF pc'[q] = "acquire" /\ pc[q] # "acquire"
       THEN released /\ ~(\E r \in Procs : is_locked[r])
       ELSE afterRelease[q]]
  /\ freeAll' = [q \in Procs |->
       IF pc'[q] = "acquire"
       THEN (pc[q] # "acquire" \/ freeAll[q])
            /\ ~(\E r \in Procs \ {q} : is_locked'[r])
       ELSE freeAll[q]]
  /\ heldAll' = [q \in Procs |->
       IF pc'[q] = "acquire"
       THEN (pc[q] # "acquire" \/ heldAll[q])
            /\ (\E r \in Procs \ {q} : is_locked'[r])
       ELSE heldAll[q]]
  /\ dirty' = [q \in Procs |->
       IF pc[q] = "getsize" THEN FALSE
       ELSE dirty[q] \/ files'["doc"] # files["doc"]]

Truncated(p, f) ==
  [prov EXCEPT ![f] = [who |-> {p}, name |-> op[p].name, text |-> op[p].text,
                       doc |-> op[p].doc, fin |-> FALSE]]

Written(p, f) ==
  [prov EXCEPT ![f] = IF prov[f].who = {p} /\ ~prov[f].fin THEN prov[f] ELSE NoProv]

Closed(p, f) ==
  [prov EXCEPT ![f] = IF prov[f].who = {p} /\ ~prov[f].fin
                      THEN [prov[f] EXCEPT !.fin = TRUE, !.who = {}]
                      ELSE prov[f]]

\* The locals of git_hash_sha before it has run.
NoSha == [size |-> 0, acc |-> <<>>, pos |-> 0]

\* Mutant of GenerateKey: the key is derived from the node, as
\* get_secret_key does, and every instance has the same.
GenerateKeyFromNode(inst) == 1

\* Fernet.generate_key() of the inst-th process instance: 32 random
\* bytes, which no earlier instance has drawn.
GenerateKey(inst) == inst

\* The codec after the import of the module by the first instance: the
\* key is made, no call has been made, no blob is kept.
NoCodec ==
  [inst |-> 1, key |-> GenerateKey(1), fn |-> "none", arg |-> PyNone,
   kind |-> "blob", out |-> CodecNone,
   have |-> FALSE, blob |-> NoText, src |-> PyNone, madeBy |-> 0]

Init ==
  /\ is_locked = [p \in Procs |-> FALSE]
  /\ files = [f \in Paths |-> Absent]
  /\ sink = <<>>
  /\ pc = [p \in Procs |-> "idle"]
  /\ op = [p \in Procs |-> NoCall]
  /\ k = [p \in Procs |-> 0]
  /\ off = [p \in Procs |-> 0]
  /\ busy = [p \in Procs |-> FALSE]
  /\ ret = [p \in Procs |-> NoRet]
  /\ calls = 0
  /\ plain = 0
  /\ prov = [f \in Paths |-> NoProv]
  /\ released = FALSE
  /\ afterRelease = [p \in Procs |-> FALSE]
  /\ freeAll = [p \in Procs |-> FALSE]
  /\ heldAll = [p \in Procs |-> FALSE]
  /\ sha = [p \in Procs |-> NoSha]
  /\ dirty = [p \in Procs |-> FALSE]
  /\ codec = NoCodec

(* ----------------------------- calls ----------------------------------- *)

\* A call has ended (returned, or raised) and its result is in the hands
\* of the caller.  The result is looked at once, at that moment: the
\* caller drops it (Forget) before any process takes another step.
Pending == \E q \in Procs : pc[q] \in {"done", "raised"}

\* Process p is at position where of its call.
At(p, where) == pc[p] = where /\ ~Pending

\* Process p starts call c at position start.  The processes are alike,
\* so the first call of process p comes after the first call of every
\* process numbered below it.
Begin(p, c, start) ==
  /\ pc[p] \in {"idle", "returned"}
  /\ ~Pending
  /\ \A q \in Procs : q < p => pc[q] # "idle"
  /\ calls' = calls + 1
  /\ plain' = IF c.name = "write_toml" THEN plain + 1 ELSE plain
  /\ op' = [op EXCEPT ![p] = c]
  /\ pc' = [pc EXCEPT ![p] = start]
  /\ k' = [k EXCEPT ![p] = 0]
  /\ off' = [off EXCEPT ![p] = 0]
  /\ busy' = [busy EXCEPT ![p] = FALSE]
  /\ ret' = [ret EXCEPT ![p] = NoRet]
  /\ UNCHANGED <<is_locked, files, sink, prov>>
  /\ Observe
  /\ UNCHANGED <<sha, codec>>

CallReadFile(p) ==
  \E t \in Timeouts :
    /\ calls < MaxCalls
    /\ Begin(p, MkCall("locked_read_file", t, "doc", "doc", <<>>, <<>>), "acquire")

CallReadToml(p) ==
  \E t \in Timeouts :
    /\ calls < MaxCalls
    /\ Begin(p, MkCall("locked_read_toml", t, "doc", "doc", <<>>, <<>>), "acquire")

CallWriteFile(p) ==
  \E t \in Timeouts, x \in Texts :
    /\ calls < MaxCalls
    /\ Begin(p, MkCall("locked_write_file", t, "doc", "doc", x, <<>>), "acquire")

\* locked_write_toml dumps the struct before it asks for the lock.
CallWriteToml(p) ==
  \E t \in Timeouts, d \in Docs :
    /\ calls < MaxCalls
    /\ Begin(p, MkCall("locked_write_toml", t, "doc", "doc", toml_dumps(d), d), "acquire")

CallCopyFile(p) ==
  \E t \in Timeouts :
    /\ calls < MaxCalls
    /\ Begin(p, MkCall("locked_copy_file", t, "bak", "doc", <<>>, <<>>), "acquire")

CallIsBusy(p) ==
  /\ calls < MaxCalls
  /\ Begin(p, MkCall("file_lock_is_busy", BusyTimeout, "doc", "doc", <<>>, <<>>), "acquire")

\* The n-th fragment process p appends: p's own text.
Fragment(p, n) == <<Raw(<<p, n>>)>>

\* LockedFileLikeObject.write(s): the fragment is the caller's next one.
SinkCall(p) ==
  LET n == Cardinality({i \in 1..Len(sink) : sink[i].by = p})
  IN  MkCall("sink_write", Unbounded, "doc", "doc", Fragment(p, n + 1), <<>>)

CallSinkWrite(p) ==
  /\ calls < MaxCalls
  /\ Begin(p, SinkCall(p), "acquire")

\* The same call where the processes are writers of the sink only.
CallAppend(p) ==
  /\ calls < MaxAppends
  /\ Begin(p, SinkCall(p), "acquire")

\* write_toml(path, struct) takes no lock path: it opens the file at once.
CallPlainWriteToml(p) ==
  \E d \in Docs :
    /\ plain < MaxPlainCalls
    /\ calls < MaxCalls
    /\ Begin(p, MkCall("write_toml", Unbounded, "doc", "doc", toml_dumps(d), d), "open_w")

(* --------------------------- FileLock.acquire --------------------------- *)

\* Where the body of the with block (or the code after acquire) starts.
Body(name) ==
  CASE name \in ReadOps -> "exists"
    [] name \in WriteOps -> "open_w"
    [] name = "locked_copy_file" -> "copy_open"
    [] name = "file_lock_is_busy" -> "finally"
    [] OTHER -> "write_func"

\* Mutant of TimeoutRet: a timeout is reported like a missing file.
TimeoutRetAsMissing(name) ==
  CASE name = "locked_read_file" -> ReadRet(TRUE, TRUE, <<>>)
    [] name = "locked_read_toml" -> StructRet(TRUE, TRUE, <<>>)
    [] OTHER -> BoolRet(FALSE)

\* What each function returns from `except TimeoutError`.
TimeoutRet(name) ==
  CASE name = "locked_read_file" -> ReadRet(FALSE, FALSE, <<>>)
    [] name = "locked_read_toml" -> StructRet(FALSE, TRUE, <<>>)
    [] OTHER -> BoolRet(FALSE)

\* Mutant of Acquire: the body runs without the lock having been taken.
AcquireWithoutLock(p) ==
  /\ At(p, "acquire")
  /\ CanAcquire(p)
  /\ pc' = [pc EXCEPT ![p] = Body(op[p].name)]
  /\ k' = [k EXCEPT ![p] = 0]
  /\ UNCHANGED <<is_locked, files, sink, op, off, busy, ret, calls, plain, prov>>
  /\ Observe
  /\ UNCHANGED <<sha, codec>>

\* A poll finds the lock free and takes it.
Acquire(p) ==
  /\ At(p, "acquire")
  /\ CanAcquire(p)
  /\ is_locked' = [is_locked EXCEPT ![p] = TRUE]
  /\ pc' = [pc EXCEPT ![p] = Body(op[p].name)]
  /\ k' = [k EXCEPT ![p] = 0]
  /\ UNCHANGED <<files, sink, op, off, busy, ret, calls, plain, prov>>
  /\ Observe
  /\ UNCHANGED <<sha, codec>>

\* Mutant of Sleep: the time slept is not counted.
SleepUncounted(p) ==
  /\ At(p, "acquire")
  /\ ~CanAcquire(p)
  /\ ~Expired(p)
  /\ UNCHANGED <<is_locked, files, sink, pc, op, k, off, busy, ret, calls, plain, prov>>
  /\ Observe
  /\ UNCHANGED <<sha, codec>>

\* A poll finds the lock taken, the timeout is not over: sleep one interval.
Sleep(p) ==
  /\ At(p, "acquire")
  /\ ~CanAcquire(p)
  /\ ~Expired(p)
  /\ k' = [k EXCEPT ![p] = IF op[p].timeout >= 0 THEN k[p] + 1 ELSE k[p]]
  /\ UNCHANGED <<is_locked, files, sink, pc, op, off, busy, ret, calls, plain, prov>>
  /\ Observe
  /\ UNCHANGED <<sha, codec>>

\* Mutant of TimedOut: the file to write is opened before the lock is
\* asked for, so a writer that times out has cut it.
TimedOutAfterOpen(p) ==
  /\ At(p, "acquire")
  /\ ~CanAcquire(p)
  /\ Expired(p)
  /\ op[p].name \in LockedOps
  /\ ret' = [ret EXCEPT ![p] = TimeoutRet(op[p].name)]
  /\ pc' = [pc EXCEPT ![p] = "done"]
  /\ files' = IF op[p].name \in WriteOps
              THEN [files EXCEPT ![op[p].path] = File(<<>>)] ELSE files
  /\ k' = [k EXCEPT ![p] = 0]
  /\ UNCHANGED <<is_locked, sink, op, off, busy, calls, plain, prov>>
  /\ Observe
  /\ UNCHANGED <<sha, codec>>

\* Mutant of TimedOut: the time is tested without the lock being polled.
TimedOutNoPoll(p) ==
  /\ At(p, "acquire")
  /\ Expired(p)
  /\ op[p].name \in LockedOps
  /\ ret' = [ret EXCEPT ![p] = TimeoutRet(op[p].name)]
  /\ pc' = [pc EXCEPT ![p] = "done"]
  /\ k' = [k EXCEPT ![p] = 0]
  /\ UNCHANGED <<is_locked, files, sink, op, off, busy, calls, plain, prov>>
  /\ Observe
  /\ UNCHANGED <<sha, codec>>

\* A poll finds the lock taken and the timeout over: acquire raises
\* Timeout, which the function catches as TimeoutError.
TimedOut(p) ==
  /\ At(p, "acquire")
  /\ ~CanAcquire(p)
  /\ Expired(p)
  /\ IF op[p].name = "file_lock_is_busy"
     THEN /\ busy' = [busy EXCEPT ![p] = TRUE]
          /\ pc' = [pc EXCEPT ![p] = "finally"]
          /\ ret' = ret
     ELSE IF op[p].name \in LockedOps
     THEN /\ ret' = [ret EXCEPT ![p] = TimeoutRet(op[p].name)]
          /\ pc' = [pc EXCEPT ![p] = "done"]
          /\ busy' = busy
     ELSE /\ pc' = [pc EXCEPT ![p] = "raised"]
          /\ UNCHANGED <<ret, busy>>
  /\ k' = [k EXCEPT ![p] = 0]
  /\ UNCHANGED <<is_locked, files, sink, op, off, calls, plain, prov>>
  /\ Observe
  /\ UNCHANGED <<sha, codec>>

(* ------------------------- the critical sections ------------------------ *)

\* locked_read_file: if not os.path.exists(file_path): return True, None
ReadExists(p) ==
  /\ At(p, "exists")
  /\ IF files[op[p].path].ex
     THEN /\ pc' = [pc EXCEPT ![p] = "read"]
          /\ UNCHANGED <<is_locked, ret>>
     ELSE /\ is_locked' = Released(p)
          /\ ret' = [ret EXCEPT ![p] =
               IF op[p].name = "locked_read_toml"
               THEN StructRet(TRUE, TRUE, <<>>) ELSE ReadRet(TRUE, TRUE, <<>>)]
          /\ pc' = [pc EXCEPT ![p] = "done"]
  /\ UNCHANGED <<files, sink, op, k, off, busy, calls, plain, prov>>
  /\ Observe
  /\ UNCHANGED <<sha, codec>>

\* locked_read_file: open, fin.read(), and the exit of the with block;
\* locked_read_toml then parses the text, which may raise.
ReadText(p) ==
  /\ At(p, "read")
  /\ files[op[p].path].ex
  /\ is_locked' = Released(p)
  /\ LET text == files[op[p].path].data
         r == toml_loads(text)
     IN  IF op[p].name = "locked_read_file"
         THEN /\ ret' = [ret EXCEPT ![p] = ReadRet(TRUE, FALSE, text)]
              /\ pc' = [pc EXCEPT ![p] = "done"]
         ELSE IF r.ok
         THEN /\ ret' = [ret EXCEPT ![p] = StructRet(TRUE, FALSE, r.doc)]
              /\ pc' = [pc EXCEPT ![p] = "done"]
         ELSE /\ ret' = ret
              /\ pc' = [pc EXCEPT ![p] = "raised"]
  /\ UNCHANGED <<files, sink, op, k, off, busy, calls, plain, prov>>
  /\ Observe
  /\ UNCHANGED <<sha, codec>>

\* Mutant of WriteOpen: the file is opened with 'a', and keeps its content.
WriteOpenAppend(p) ==
  /\ At(p, "open_w")
  /\ files' = [files EXCEPT ![op[p].path] = File(files[op[p].path].data)]
  /\ prov' = Truncated(p, op[p].path)
  /\ off' = [off EXCEPT ![p] = Len(files[op[p].path].data)]
  /\ pc' = [pc EXCEPT ![p] = "write"]
  /\ UNCHANGED <<is_locked, sink, op, k, busy, ret, calls, plain>>
  /\ Observe
  /\ UNCHANGED <<sha, codec>>

\* open(file_path, 'w'): the file is created, or cut to nothing.
WriteOpen(p) ==
  /\ At(p, "open_w")
  /\ files' = [files EXCEPT ![op[p].path] = File(<<>>)]
  /\ prov' = Truncated(p, op[p].path)
  /\ off' = [off EXCEPT ![p] = 0]
  /\ pc' = [pc EXCEPT ![p] = "write"]
  /\ UNCHANGED <<is_locked, sink, op, k, busy, ret, calls, plain>>
  /\ Observe
  /\ UNCHANGED <<sha, codec>>

\* fout.write(text): the next block goes to the file at the writer's offset.
WriteBlock(p) ==
  /\ At(p, "write")
  /\ off[p] < Len(op[p].text)
  /\ files' = [files EXCEPT ![op[p].path] =
       File(WriteAt(files[op[p].path].data, off[p], op[p].text[off[p] + 1]))]
  /\ prov' = Written(p, op[p].path)
  /\ off' = [off EXCEPT ![p] = off[p] + 1]
  /\ UNCHANGED <<is_locked, sink, pc, op, k, busy, ret, calls, plain>>
  /\ Observe
  /\ UNCHANGED <<sha, codec>>

\* The file is closed; a locked writer leaves its with block and returns True.
WriteClose(p) ==
  /\ At(p, "write")
  /\ off[p] = Len(op[p].text)
  /\ prov' = Closed(p, op[p].path)
  /\ is_locked' = Released(p)
  /\ ret' = [ret EXCEPT ![p] =
       IF op[p].name = "write_toml" THEN NoneRet ELSE BoolRet(TRUE)]
  /\ pc' = [pc EXCEPT ![p] = "done"]
  /\ off' = [off EXCEPT ![p] = 0]
  /\ UNCHANGED <<files, sink, op, k, busy, calls, plain>>
  /\ Observe
  /\ UNCHANGED <<sha, codec>>

\* Mutant of CopyOpen: a missing source is reported like a timeout.
CopyOpenMissingIsFalse(p) ==
  /\ At(p, "copy_open")
  /\ IF files[op[p].src].ex
     THEN /\ files' = [files EXCEPT ![op[p].path] = File(<<>>)]
          /\ prov' = Truncated(p, op[p].path)
          /\ pc' = [pc EXCEPT ![p] = "copy"]
          /\ UNCHANGED <<is_locked, ret>>
     ELSE /\ is_locked' = Released(p)
          /\ pc' = [pc EXCEPT ![p] = "done"]
          /\ ret' = [ret EXCEPT ![p] = BoolRet(FALSE)]
          /\ UNCHANGED <<files, prov>>
  /\ off' = [off EXCEPT ![p] = 0]
  /\ UNCHANGED <<sink, op, k, busy, calls, plain>>
  /\ Observe
  /\ UNCHANGED <<sha, codec>>

\* shutil.copyfile opens src, which must exist, then opens dst with 'wb'.
CopyOpen(p) ==
  /\ At(p, "copy_open")
  /\ IF files[op[p].src].ex
     THEN /\ files' = [files EXCEPT ![op[p].path] = File(<<>>)]
          /\ prov' = Truncated(p, op[p].path)
          /\ pc' = [pc EXCEPT ![p] = "copy"]
          /\ is_locked' = is_locked
     ELSE /\ is_locked' = Released(p)
          /\ pc' = [pc EXCEPT ![p] = "raised"]
          /\ UNCHANGED <<files, prov>>
  /\ off' = [off EXCEPT ![p] = 0]
  /\ UNCHANGED <<sink, op, k, busy, ret, calls, plain>>
  /\ Observe
  /\ UNCHANGED <<sha, codec>>

\* One round of the copy loop: a block read from src is written to dst.
CopyBlock(p) ==
  /\ At(p, "copy")
  /\ off[p] < Len(files[op[p].src].data)
  /\ files' = [files EXCEPT ![op[p].path] =
       File(WriteAt(files[op[p].path].data, off[p], files[op[p].src].data[off[p] + 1]))]
  /\ prov' = Written(p, op[p].path)
  /\ off' = [off EXCEPT ![p] = off[p] + 1]
  /\ UNCHANGED <<is_locked, sink, pc, op, k, busy, ret, calls, plain>>
  /\ Observe
  /\ UNCHANGED <<sha, codec>>

\* src is read to its end: both files are closed, the lock released.
CopyDone(p) ==
  /\ At(p, "copy")
  /\ off[p] >= Len(files[op[p].src].data)
  /\ prov' = Closed(p, op[p].path)
  /\ is_locked' = Released(p)
  /\ ret' = [ret EXCEPT ![p] = BoolRet(TRUE)]
  /\ pc' = [pc EXCEPT ![p] = "done"]
  /\ off' = [off EXCEPT ![p] = 0]
  /\ UNCHANGED <<files, sink, op, k, busy, calls, plain>>
  /\ Observe
  /\ UNCHANGED <<sha, codec>>

\* Mutant of BusyFinally: the flag set by the except clause is lost.
BusyFinallyAlwaysFalse(p) ==
  /\ At(p, "finally")
  /\ is_locked' = Released(p)
  /\ ret' = [ret EXCEPT ![p] = BoolRet(FALSE)]
  /\ busy' = [busy EXCEPT ![p] = FALSE]
  /\ pc' = [pc EXCEPT ![p] = "done"]
  /\ UNCHANGED <<files, sink, op, k, off, calls, plain, prov>>
  /\ Observe
  /\ UNCHANGED <<sha, codec>>

\* Mutant of BusyFinally: the probe clears the lock path, which takes the
\* lock from whoever holds it.
BusyFinallyClearsLock(p) ==
  /\ At(p, "finally")
  /\ is_locked' = [q \in Procs |-> FALSE]
  /\ ret' = [ret EXCEPT ![p] = BoolRet(busy[p])]
  /\ busy' = [busy EXCEPT ![p] = FALSE]
  /\ pc' = [pc EXCEPT ![p] = "done"]
  /\ UNCHANGED <<files, sink, op, k, off, calls, plain, prov>>
  /\ Observe
  /\ UNCHANGED <<sha, codec>>

\* file_lock_is_busy: finally: flock.release(); return busy
BusyFinally(p) ==
  /\ At(p, "finally")
  /\ is_locked' = Released(p)
  /\ ret' = [ret EXCEPT ![p] = BoolRet(busy[p])]
  /\ busy' = [busy EXCEPT ![p] = FALSE]
  /\ pc' = [pc EXCEPT ![p] = "done"]
  /\ UNCHANGED <<files, sink, op, k, off, calls, plain, prov>>
  /\ Observe
  /\ UNCHANGED <<sha, codec>>

\* LockedFileLikeObject.write: self.write_func(s), under the lock.
SinkWriteFunc(p) ==
  /\ At(p, "write_func")
  /\ sink' = Append(sink, [by |-> p, frag |-> op[p].text])
  /\ pc' = [pc EXCEPT ![p] = "sink_exit"]
  /\ UNCHANGED <<is_locked, files, op, k, off, busy, ret, calls, plain, prov>>
  /\ Observe
  /\ UNCHANGED <<sha, codec>>

\* Mutant of SinkWriteFuncRaises: the lock is taken with acquire() and no
\* try/finally, so the error leaves it held.
SinkWriteFuncRaisesHeld(p) ==
  /\ At(p, "write_func")
  /\ pc' = [pc EXCEPT ![p] = "raised"]
  /\ UNCHANGED <<is_locked, files, sink, op, k, off, busy, ret, calls, plain, prov>>
  /\ Observe
  /\ UNCHANGED <<sha, codec>>

\* self.write_func(s) raises: the with block releases the lock and the
\* error goes to the caller of write.
SinkWriteFuncRaises(p) ==
  /\ At(p, "write_func")
  /\ is_locked' = Released(p)
  /\ pc' = [pc EXCEPT ![p] = "raised"]
  /\ UNCHANGED <<files, sink, op, k, off, busy, ret, calls, plain, prov>>
  /\ Observe
  /\ UNCHANGED <<sha, codec>>

\* Mutant of SinkExit: write returns with the lock still held.
SinkExitKeepsLock(p) ==
  /\ At(p, "sink_exit")
  /\ ret' = [ret EXCEPT ![p] = IntRet]
  /\ pc' = [pc EXCEPT ![p] = "done"]
  /\ UNCHANGED <<is_locked, files, sink, op, k, off, busy, calls, plain, prov>>
  /\ Observe
  /\ UNCHANGED <<sha, codec>>

\* LockedFileLikeObject.write: the with block ends; return 0
SinkExit(p) ==
  /\ At(p, "sink_exit")
  /\ is_locked' = Released(p)
  /\ ret' = [ret EXCEPT ![p] = IntRet]
  /\ pc' = [pc EXCEPT ![p] = "done"]
  /\ UNCHANGED <<files, sink, op, k, off, busy, calls, plain, prov>>
  /\ Observe
  /\ UNCHANGED <<sha, codec>>

\* The caller has used the result (or handled the error) and drops it.
Forget(p) ==
  /\ pc[p] \in {"done", "raised"}
  /\ pc' = [pc EXCEPT ![p] = "returned"]
  /\ op' = [op EXCEPT ![p] = NoCall]
  /\ ret' = [ret EXCEPT ![p] = NoRet]
  /\ released' = released
  /\ afterRelease' = [afterRelease EXCEPT ![p] = FALSE]
  /\ freeAll' = [freeAll EXCEPT ![p] = FALSE]
  /\ heldAll' = [heldAll EXCEPT ![p] = FALSE]
  /\ UNCHANGED <<is_locked, files, sink, k, off, busy, calls, plain, prov>>
  /\ UNCHANGED <<sha, dirty, codec>>

(* ---------------------------- git_hash_sha ----------------------------- *)

\* f"blob {size}\0".encode(): the header of a git blob of size bytes.
Prefix(size) == [kind |-> "blob", path |-> <<ToString(size)>>, val |-> 0]

\* sha1_algo.hexdigest(): SHA-1 is taken to tell apart any two inputs, so
\* the digest stands for the bytes the accumulator was fed.
Sha1Hex(acc) == [kind |-> "digest", status |-> TRUE, absent |-> FALSE,
                 text |-> acc, doc |-> <<>>]

\* git_hash_sha(path) takes no lock.
CallGitHashSha(p) ==
  /\ calls < MaxCalls
  /\ Begin(p, MkCall("git_hash_sha", Unbounded, "doc", "doc", <<>>, <<>>), "getsize")

\* locked_write_file with the contents that are hashed.
CallWriteContent(p) ==
  \E x \in HashTexts :
    /\ calls < MaxCalls
    /\ Begin(p, MkCall("locked_write_file", Unbounded, "doc", "doc", x, <<>>), "acquire")

\* Mutant of GetSize: the size is counted in blocks, not in bytes.
GetSizeInBlocks(p) ==
  /\ At(p, "getsize")
  /\ files[op[p].path].ex
  /\ LET size == Len(files[op[p].path].data) \div BlockSize
     IN  sha' = [sha EXCEPT ![p] = [size |-> size, acc |-> <<Prefix(size)>>, pos |-> 0]]
  /\ pc' = [pc EXCEPT ![p] = "hash_open"]
  /\ UNCHANGED <<is_locked, files, sink, op, k, off, busy, ret, calls, plain, prov, codec>>
  /\ Observe

\* size = os.path.getsize(path), which raises when there is no file, and
\* sha1_algo.update of the header.
GetSize(p) ==
  /\ At(p, "getsize")
  /\ IF files[op[p].path].ex
     THEN LET size == Len(files[op[p].path].data)
          IN  /\ sha' = [sha EXCEPT ![p] =
                          [size |-> size, acc |-> <<Prefix(size)>>, pos |-> 0]]
              /\ pc' = [pc EXCEPT ![p] = "hash_open"]
     ELSE /\ pc' = [pc EXCEPT ![p] = "raised"]
          /\ sha' = sha
  /\ UNCHANGED <<is_locked, files, sink, op, k, off, busy, ret, calls, plain, prov, codec>>
  /\ Observe

\* update_hash_algo_with_file: open(path, 'rb').
HashOpen(p) ==
  /\ At(p, "hash_open")
  /\ pc' = [pc EXCEPT ![p] = IF files[op[p].path].ex THEN "hash_read" ELSE "raised"]
  /\ UNCHANGED <<is_locked, files, sink, op, k, off, busy, ret, calls, plain, prov,
                 sha, codec>>
  /\ Observe

\* fin.read(65536) at the position of fin: the bytes from there, a block
\* at most; nothing at or past the end of the file.
ReadBlock(data, pos) ==
  IF pos >= Len(data) THEN <<>>
  ELSE SubSeq(data, pos + 1, IF pos + BlockSize < Len(data) THEN pos + BlockSize ELSE Len(data))

\* Mutant of HashRead: the loop ends at the first block that is not full,
\* and does not feed it.
HashReadFullBlocks(p) ==
  /\ At(p, "hash_read")
  /\ LET block == ReadBlock(files[op[p].path].data, sha[p].pos)
     IN  IF Len(block) < BlockSize
         THEN /\ ret' = [ret EXCEPT ![p] = Sha1Hex(sha[p].acc)]
              /\ pc' = [pc EXCEPT ![p] = "done"]
              /\ sha' = [sha EXCEPT ![p] = NoSha]
         ELSE /\ sha' = [sha EXCEPT ![p].acc = @ \o block, ![p].pos = @ + Len(block)]
              /\ UNCHANGED <<ret, pc>>
  /\ UNCHANGED <<is_locked, files, sink, op, k, off, busy, calls, plain, prov, codec>>
  /\ Observe

\* One round of `for block in iter(lambda: fin.read(65536), b'')`: the
\* block is fed to the accumulator; the empty block ends the loop, the
\* file is closed and git_hash_sha returns the digest.
HashRead(p) ==
  /\ At(p, "hash_read")
  /\ LET block == ReadBlock(files[op[p].path].data, sha[p].pos)
     IN  IF block = <<>>
         THEN /\ ret' = [ret EXCEPT ![p] = Sha1Hex(sha[p].acc)]
              /\ pc' = [pc EXCEPT ![p] = "done"]
              /\ sha' = [sha EXCEPT ![p] = NoSha]
         ELSE /\ sha' = [sha EXCEPT ![p].acc = @ \o block, ![p].pos = @ + Len(block)]
              /\ UNCHANGED <<ret, pc>>
  /\ UNCHANGED <<is_locked, files, sink, op, k, off, busy, calls, plain, prov, codec>>
  /\ Observe

(* ------------------------------- codec --------------------------------- *)

\* The steps of the codec touch nothing of the lock layer.
CodecOnly ==
  UNCHANGED <<is_locked, files, sink, pc, op, k, off, busy, ret, calls, plain,
              prov, released, afterRelease, freeAll, heldAll, sha, dirty>>

\* A call encrypt_object_to_base64(obj); the caller keeps the blob.
CodecEncrypt ==
  \E obj \in CodecValues, iv \in 1..NumIVs :
    LET out == encrypt_object_to_base64(codec.key, iv, obj)
        ok == ~out.raised /\ ~out.none
    IN  /\ codec' = [codec EXCEPT !.fn = "encrypt", !.arg = obj, !.out = out,
                       !.have = @ \/ ok,
                       !.blob = IF ok THEN out.text ELSE @,
                       !.src = IF ok THEN obj ELSE @,
                       !.madeBy = IF ok THEN codec.inst ELSE @]
        /\ CodecOnly

\* The text of kind kd a caller can give to decrypt_base64_to_object.
TextOf(kd, iv) ==
  CASE kd = "blob" -> codec.blob
    [] kd = "junk" -> [codec.blob EXCEPT !.junk = TRUE]
    [] kd = "badpad" -> [codec.blob EXCEPT !.pad = FALSE]
    [] kd = "corrupt" -> [codec.blob EXCEPT !.tok = Corrupted(@)]
    [] kd = "notz" ->
         b64encode(fernet_encrypt(codec.key, iv, Uncompressed(Dumped(JNull))))
    [] kd = "notjson" ->
         b64encode(fernet_encrypt(codec.key, iv, zlib_compress(NotJson)))
    [] OTHER -> NoText

\* A call decrypt_base64_to_object(text).
CodecDecrypt ==
  \E kd \in TextKinds, iv \in 1..NumIVs :
    /\ kd \in {"blob", "junk", "badpad", "corrupt"} => codec.have
    /\ codec' = [codec EXCEPT !.fn = "decrypt", !.kind = kd,
                   !.out = decrypt_base64_to_object(codec.key, TextOf(kd, iv))]
    /\ CodecOnly

\* The process ends and another instance imports the module: a new key.
\* The blobs the callers stored outlive the instance.
CodecRestart ==
  /\ codec.inst <= MaxRestarts
  /\ codec' = [codec EXCEPT !.inst = @ + 1, !.key = GenerateKey(codec.inst + 1),
                 !.fn = "none"]
  /\ CodecOnly

NextCodec == CodecEncrypt \/ CodecDecrypt \/ CodecRestart

SpecCodec == Init /\ [][NextCodec]_vars

\* Processes that hash the state file and overwrite it.
NextHash ==
  \E p \in Procs :
    \/ CallGitHashSha(p) \/ CallWriteContent(p)
    \/ GetSize(p) \/ HashOpen(p) \/ HashRead(p)
    \/ Acquire(p) \/ Sleep(p)
    \/ WriteOpen(p) \/ WriteBlock(p) \/ WriteClose(p) \/ Forget(p)

SpecHash == Init /\ [][NextHash]_vars

\* locked_read_file called with a bounded timeout.
CallReadFileWithin(p) ==
  \E t \in WaitTimeouts :
    /\ calls < MaxCalls
    /\ Begin(p, MkCall("locked_read_file", t, "doc", "doc", <<>>, <<>>), "acquire")

\* Readers and probes with bounded waits, and writers.
NextWait ==
  \E p \in Procs :
    \/ CallReadFileWithin(p) \/ CallWriteFile(p) \/ CallIsBusy(p)
    \/ Acquire(p) \/ Sleep(p) \/ TimedOut(p)
    \/ ReadExists(p) \/ ReadText(p)
    \/ WriteOpen(p) \/ WriteBlock(p) \/ WriteClose(p)
    \/ BusyFinally(p) \/ Forget(p)

\* A step of a call that was made with a bounded timeout.
BoundedStep(p) ==
  /\ op[p].timeout >= 0
  /\ \/ Acquire(p) \/ Sleep(p) \/ TimedOut(p)
     \/ ReadExists(p) \/ ReadText(p)
     \/ WriteOpen(p) \/ WriteBlock(p) \/ WriteClose(p)
     \/ BusyFinally(p)

\* A process in a bounded call keeps running, and every caller takes the
\* result of its call; a process in a call with timeout=-1 may stay where
\* it is for ever, also while it holds the lock.
SpecWait ==
  /\ Init
  /\ [][NextWait]_vars
  /\ \A p \in Procs : WF_vars(BoundedStep(p)) /\ WF_vars(Forget(p))

Next ==
  \E p \in Procs :
    \/ CallReadFile(p) \/ CallReadToml(p) \/ CallWriteFile(p)
    \/ CallWriteToml(p) \/ CallCopyFile(p) \/ CallIsBusy(p)
    \/ CallSinkWrite(p) \/ CallPlainWriteToml(p)
    \/ Acquire(p) \/ Sleep(p) \/ TimedOut(p)
    \/ ReadExists(p) \/ ReadText(p)
    \/ WriteOpen(p) \/ WriteBlock(p) \/ WriteClose(p)
    \/ CopyOpen(p) \/ CopyBlock(p) \/ CopyDone(p)
    \/ BusyFinally(p) \/ SinkWriteFunc(p) \/ SinkWriteFuncRaises(p)
    \/ SinkExit(p) \/ Forget(p)

Spec == Init /\ [][Next]_vars

\* Processes that only append to a streaming sink.
NextSink ==
  \E p \in Procs :
    \/ CallAppend(p) \/ Acquire(p) \/ Sleep(p)
    \/ SinkWriteFunc(p) \/ SinkWriteFuncRaises(p) \/ SinkExit(p) \/ Forget(p)

SpecSink == Init /\ [][NextSink]_vars

(* ------------------------------ claims --------------------------------- *)

\* The positions of a call inside the region its lock guards.
Guarded == {"exists", "read", "open_w", "write", "copy_open", "copy",
            "finally", "write_func", "sink_exit"}

\* The positions at which a process is in the middle of writing.
Writing == {"write", "copy", "write_func"}

\* C1: mutual exclusion: in every reachable state at most one process
\* holds the lock of the lock path, whatever the processes are running.
C1_MutualExclusion == Cardinality({p \in Procs : is_locked[p]}) <= 1

\* C1, the case: one process holds the lock while another, which has
\* polled and found it taken, is waiting for it.
C1_Witness ==
  \E p \in Procs, q \in Procs :
    /\ p # q
    /\ is_locked[p]
    /\ pc[q] = "acquire"
    /\ k[q] >= 1

\* C2 as stated: every process in the middle of writing a state file,
\* the plain write_toml included, holds the lock at that moment.
C2_EveryWriterHoldsLock ==
  \A p \in Procs : pc[p] \in Writing => is_locked[p]

\* C2 amended: every process in the middle of a write of locked_write_file,
\* locked_write_toml, locked_copy_file or of a sink's write function holds
\* the lock at that moment; write_toml writes while holding no lock.
C2_LockedWritersHoldLock ==
  \A p \in Procs :
    pc[p] \in Writing =>
      (is_locked[p] <=> op[p].name # "write_toml")

\* C2, the case: locked_copy_file has copied a block and holds the lock.
C2_Witness ==
  \E p \in Procs :
    /\ pc[p] = "copy"
    /\ off[p] >= 1
    /\ is_locked[p]

\* Process p's call returns in this step.
Returns(p) == pc[p] # "done" /\ pc'[p] = "done"

\* C3: locked_read_file returns (False, '') if and only if it did not get
\* the lock within its timeout; having the lock it returns (True, None)
\* exactly when the file does not exist at its check, and (True, content)
\* with the file's content otherwise.  A missing file never gives False,
\* a timeout never gives True.
C3_ReadOutcomes ==
  [][\A p \in Procs :
       (Returns(p) /\ op[p].name = "locked_read_file") =>
         LET f == files[op[p].path] IN
         /\ ret'[p].kind = "read"
         /\ ret'[p].status <=> is_locked[p]
         /\ ~is_locked[p] =>
              /\ ret'[p] = ReadRet(FALSE, FALSE, <<>>)
              /\ OtherLocked(p) /\ Expired(p)
         /\ is_locked[p] =>
              /\ ret'[p].absent <=> ~f.ex
              /\ f.ex => ret'[p] = ReadRet(TRUE, FALSE, f.data)
              /\ ~f.ex => ret'[p] = ReadRet(TRUE, TRUE, <<>>)
    ]_vars

\* C3, the case: a read of a missing file that timed out returned
\* (False, ''), not (True, None).
C3_Witness ==
  \E p \in Procs :
    /\ pc[p] = "done"
    /\ op[p].name = "locked_read_file"
    /\ ret[p] = ReadRet(FALSE, FALSE, <<>>)
    /\ ~files[op[p].path].ex

\* C4: locked_write_file returns True exactly when it got the lock; when
\* it returns True and nobody else has written the file since it opened
\* it, the file's whole content is the given text, and while that stays
\* so a locked_read_file returns (True, text).
C4_WriteReplacesContent ==
  [][\A p \in Procs :
       /\ (Returns(p) /\ op[p].name = "locked_write_file") =>
            /\ ret'[p].kind = "bool"
            /\ ret'[p].status <=> is_locked[p]
            /\ (ret'[p].status /\ prov[op[p].path].who = {p}) =>
                 files'[op[p].path] = File(op[p].text)
       /\ (Returns(p) /\ op[p].name = "locked_read_file" /\ is_locked[p]
           /\ prov[op[p].path].fin
           /\ prov[op[p].path].name = "locked_write_file") =>
            ret'[p] = ReadRet(TRUE, FALSE, prov[op[p].path].text)
    ]_vars

\* C4, the case: locked_write_file has returned True, the file holds its
\* text, and the file held another text before (its snapshot shows it).
C4_Witness ==
  \E p \in Procs :
    /\ pc[p] = "done"
    /\ op[p].name = "locked_write_file"
    /\ ret[p] = BoolRet(TRUE)
    /\ files[op[p].path] = File(op[p].text)
    /\ files["bak"].ex
    /\ files["bak"].data # <<>>
    /\ files["bak"].data # op[p].text

\* The file p's call is on holds exactly what a finished locked_write_toml
\* wrote: nobody has written it since.
HoldsStruct(p) ==
  /\ prov[op[p].path].fin
  /\ prov[op[p].path].name = "locked_write_toml"

\* The scalar entries of a document, in order.
Scalars(d) == SelectSeq(d, LAMBDA e : ~e.tab)

C6_SecondAttempt ==
  \A p \in Procs :
    op[p].name \in LockedOps =>
      /\ pc[p] \in Guarded => (is_locked[p] /\ ~OtherLocked(p))
      /\ (pc[p] = "done" /\ ret[p].status) => ~heldAll[p]
      /\ (pc[p] = "done" /\ ~ret[p].status) =>
           (~freeAll[p] /\ op[p].timeout >= 0)
      /\ (pc[p] \in {"done", "raised"} /\ heldAll[p]) =>
           (pc[p] = "done" /\ ~ret[p].status)

\* C6, the case: locked_write_file was called while another process held
\* the lock, waited, and returned True after the holder's release.
C6_Witness ==
  \E p \in Procs :
    /\ pc[p] = "done"
    /\ op[p].name = "locked_write_file"
    /\ ret[p] = BoolRet(TRUE)
    /\ ~freeAll[p]

\* C7: a call with the default timeout -1, and every write of a streaming
\* sink, ends only after it has had the lock: it never returns the false
\* status, however long another process holds the lock.
C7_UnboundedNeverTimesOut ==
  \A p \in Procs :
    (/\ pc[p] \in {"done", "raised"}
     /\ op[p].name \in LockedOps \cup {"sink_write"}
     /\ op[p].timeout = Unbounded) =>
      /\ ~heldAll[p]
      /\ pc[p] = "done" => ret[p].status
      /\ (op[p].name = "sink_write" /\ pc[p] = "done") => ret[p] = IntRet

\* C7, the case: locked_copy_file with timeout -1 was called while the
\* lock was held, and has returned True.
C7_Witness ==
  \E p \in Procs :
    /\ pc[p] = "done"
    /\ op[p].name = "locked_copy_file"
    /\ op[p].timeout = Unbounded
    /\ ~freeAll[p]
    /\ ret[p] = BoolRet(TRUE)

\* C8 as stated: file_lock_is_busy returns True when another process holds
\* the lock for the whole probe, and False when it is called once the
\* holder has released the lock, whatever the other processes do meanwhile.
C8_ProbeAfterRelease ==
  \A p \in Procs :
    (pc[p] = "done" /\ op[p].name = "file_lock_is_busy") =>
      /\ heldAll[p] => ret[p] = BoolRet(TRUE)
      /\ afterRelease[p] => ret[p] = BoolRet(FALSE)

\* C8 amended: file_lock_is_busy returns True when another process holds
\* the lock for the whole probe, and False when no other process holds
\* it at any moment of the probe.
C8_ProbeWindow ==
  \A p \in Procs :
    (pc[p] = "done" /\ op[p].name = "file_lock_is_busy") =>
      /\ ret[p].kind = "bool"
      /\ heldAll[p] => ret[p] = BoolRet(TRUE)
      /\ freeAll[p] => ret[p] = BoolRet(FALSE)

\* C8, the case: the probe has returned True with the lock held all
\* through it.
C8_Witness ==
  \E p \in Procs :
    /\ pc[p] = "done"
    /\ op[p].name = "file_lock_is_busy"
    /\ heldAll[p]
    /\ ret[p] = BoolRet(TRUE)

\* C9: a locked_* call whose bound runs out ends by returning its false
\* status, never by raising, and no step of it, from the call to the
\* return, changes a file.
C9_TimeoutLeavesFilesAlone ==
  [][\A p \in Procs :
       /\ (op'[p].name \in LockedOps /\ pc'[p] \in {"acquire", "done"}
           /\ <<pc[p], k[p], op[p]>> # <<pc'[p], k'[p], op'[p]>>
           /\ ~is_locked[p] /\ ~is_locked'[p]) =>
            files' = files
       /\ (op[p].name \in LockedOps /\ pc[p] = "acquire"
           /\ pc'[p] # "acquire" /\ ~is_locked'[p]) =>
            /\ pc'[p] = "done"
            /\ ret'[p] = TimeoutRet(op[p].name)
            /\ ~ret'[p].status
            /\ files' = files
    ]_vars

\* C9, the case: locked_copy_file has timed out and returned False; its
\* source exists and its destination still does not.
C9_Witness ==
  \E p \in Procs :
    /\ pc[p] = "done"
    /\ op[p].name = "locked_copy_file"
    /\ ret[p] = BoolRet(FALSE)
    /\ files[op[p].src].ex
    /\ ~files[op[p].path].ex

\* The entries of the sink that are process p's n-th fragment.
Appended(p, n) ==
  {i \in 1..Len(sink) : sink[i] = [by |-> p, frag |-> Fragment(p, n)]}

\* C10: a write of a streaming sink runs its write function once, with the
\* fragment given, under the lock, and has released the lock when it
\* returns; no writer holds the lock between two of its appends, and no
\* two write functions run at the same time.
C10_LockPerAppend ==
  \A p \in Procs :
    /\ pc[p] \in {"write_func", "sink_exit"} => (is_locked[p] /\ ~OtherLocked(p))
    /\ pc[p] \in {"idle", "returned", "acquire", "done"} => ~is_locked[p]
    /\ pc[p] = "write_func" => Appended(p, op[p].text[1].path[1][2]) = {}
    /\ pc[p] \in {"sink_exit", "done"} =>
         Cardinality(Appended(p, op[p].text[1].path[1][2])) = 1
    /\ pc[p] = "done" => ret[p] = IntRet

\* C10, the case: two writers have appended a1, a2 and b1, b2, and the
\* sink received them in the order a1, b1, a2, b2.
C10_Witness ==
  /\ Len(sink) = 4
  /\ \A i \in 1..4 :
       sink[i] = [by |-> 2 - (i % 2), frag |-> Fragment(2 - (i % 2), (i + 1) \div 2)]

RECURSIVE JsonNative(_)
\* The objects that are JSON values as they are: None, bools, ints, strs,
\* lists of such, and dicts of such whose keys are strs.
JsonNative(o) ==
  CASE o.t \in {"None", "bool", "int", "str"} -> TRUE
    [] o.t \in {"list", "dict"} -> \A i \in 1..Len(o.items) : JsonNative(o.items[i])
    [] o.t = "pair" -> o.items[1].t = "str" /\ JsonNative(o.items[2])
    [] OTHER -> FALSE

\* json.dumps takes the object.
Serializable(o) == json_encode(o).t # "error"

\* The last call decrypted, in the instance that made it, a blob as it was made.
DecryptedOwnBlob ==
  codec.fn = "decrypt" /\ codec.kind = "blob" /\ codec.madeBy = codec.inst

C18_NoCrossInstance ==
  (codec.fn = "decrypt" /\ codec.kind \in {"blob", "junk"}
   /\ codec.madeBy # codec.inst) =>
    (codec.out.none /\ ~codec.out.raised /\ codec.out.val = PyNone)

\* C18, the case: a blob that holds a dict was made by the first instance
\* and given to the third, which returned None.
C18_Witness ==
  /\ codec.fn = "decrypt"
  /\ codec.kind = "blob"
  /\ codec.madeBy = 1
  /\ codec.inst = 3
  /\ codec.src.t = "dict"
  /\ codec.out = CodecNone

\* Process p's git_hash_sha returns in this step.
HashReturns(p) == Returns(p) /\ op[p].name = "git_hash_sha"

\* C13: when the file is not modified during the call, the accumulator of
\* git_hash_sha has been fed the header 'blob <size of the file>\0' and
\* then every byte of the file once and in order, whatever the blocks the
\* content falls into, so the digest is that of header and content - and
\* the same at every call made while the file is unchanged.
C13_DigestOfContent ==
  [][\A p \in Procs :
       (HashReturns(p) /\ ~dirty[p]) =>
         LET data == files[op[p].path].data
         IN  ret'[p] = Sha1Hex(<<Prefix(Len(data))>> \o data)]_vars

\* C13, the case: the digest of an unmodified file of one full block and
\* a part of a block has been returned.
C13_Witness ==
  \E p \in Procs :
    /\ pc[p] = "done"
    /\ ~dirty[p]
    /\ Len(files["doc"].data) = BlockSize + 1
    /\ ret[p] = Sha1Hex(<<Prefix(BlockSize + 1)>> \o files["doc"].data)

\* C20 as stated: in every execution, also when another process overwrites
\* the file while git_hash_sha runs, the size written into the header is
\* the number of bytes streamed into the accumulator after it.
C20_SizeEqualsStreamed ==
  [][\A p \in Procs :
       HashReturns(p) => sha[p].size = Len(ret'[p].text) - 1]_vars

\* C20 amended: the header holds the size the file had when git_hash_sha
\* asked for it, and the bytes streamed are those read later, with no
\* lock held: their number is the size in the header whenever the file
\* was not changed during the call, and can differ from it only when
\* another process has overwritten the file meanwhile.
C20_SizeEqualsStreamedIfUnchanged ==
  [][\A p \in Procs :
       HashReturns(p) =>
         /\ ret'[p].text[1] = Prefix(sha[p].size)
         /\ ~is_locked[p]
         /\ sha[p].size # Len(ret'[p].text) - 1 => dirty[p]]_vars

\* C20, the case: a digest has been returned whose header tells a size
\* that is not the number of bytes that follow it.
C20_Witness ==
  \E p \in Procs :
    /\ pc[p] = "done"
    /\ ret[p].kind = "digest"
    /\ dirty[p]
    /\ ret[p].text[1] # Prefix(Len(ret[p].text) - 1)

\* C14: whenever a call has ended - by a return, by the timeout status,
\* or by an error raised inside the critical section (locked_copy_file
\* with no source, locked_read_toml of text that does not parse, a write
\* function that raises) - the caller does not hold the lock.
C14_ReleasedOnEveryExit ==
  \A p \in Procs :
    pc[p] \in {"idle", "returned", "done", "raised"} => ~is_locked[p]

\* C14, the case: the write function of a sink has raised, and the writer
\* that held the lock for it holds it no more.
C14_Witness ==
  \E p \in Procs :
    /\ pc[p] = "raised"
    /\ op[p].name = "sink_write"
    /\ ~is_locked[p]
    /\ sink = <<>>

\* The step in which file_lock_is_busy releases and returns.
ProbeReturns(p) == pc[p] = "finally" /\ pc'[p] = "done"

\* C15: file_lock_is_busy has released when it returns, True or False, and
\* the release after a probe that timed out takes nothing from the
\* holder: every other process holds after the step what it held before.
C15_ProbeReleasesOwnOnly ==
  [][\A p \in Procs :
       ProbeReturns(p) =>
         /\ ~is_locked'[p]
         /\ ret'[p] \in {BoolRet(TRUE), BoolRet(FALSE)}
         /\ ret'[p] = BoolRet(TRUE) => ~is_locked[p]
         /\ \A q \in Procs \ {p} : is_locked'[q] = is_locked[q]]_vars

\* C15, the case: a probe has returned True and the process that held the
\* lock through it still holds it.
C15_Witness ==
  \E p \in Procs, q \in Procs :
    /\ p # q
    /\ pc[p] = "done"
    /\ op[p].name = "file_lock_is_busy"
    /\ ret[p] = BoolRet(TRUE)
    /\ heldAll[p]
    /\ is_locked[q]

C17_BoundedWaitsTerminate ==
  /\ [][\A p \in Procs :
          (pc[p] = "acquire" /\ pc'[p] # "acquire") =>
            \/ CanAcquire(p) /\ is_locked'[p]
            \/ ~CanAcquire(p) /\ Expired(p) /\ ~is_locked'[p]
               /\ pc'[p] \in {"done", "finally"}]_vars
  /\ \A p \in Procs :
       (pc[p] = "acquire" /\ op[p].timeout >= 0) ~> (pc[p] = "done")

\* C17, the case: locked_read_file with a timeout of one interval has
\* waited it out and returned the timeout status, the lock being held by
\* a process that still holds it.
C17_Witness ==
  \E p \in Procs, q \in Procs :
    /\ pc[p] = "done"
    /\ op[p].name = "locked_read_file"
    /\ op[p].timeout = PollIntervall
    /\ ret[p] = ReadRet(FALSE, FALSE, <<>>)
    /\ heldAll[p]
    /\ is_locked[q]

\* The texts the locked writers write to the state file.
CompleteTexts == Texts \cup {toml_dumps(d) : d \in Docs}

\* C19: while every writer of the state file has been one of the locked
\* writers, every (True, content) of locked_read_file is the whole text of
\* one finished write: never empty or a part of a write, never a mix.
C19_ReadsWholeWrites ==
  [][\A p \in Procs :
       (Returns(p) /\ op[p].name = "locked_read_file" /\ plain = 0
        /\ ret'[p].status /\ ~ret'[p].absent) =>
         /\ ret'[p].text \in CompleteTexts
         /\ ret'[p].text = files[op[p].path].data]_vars

\* C19, the case: locked_read_file has returned the text of a finished
\* write while another writer waits for the lock.
C19_Witness ==
  \E p \in Procs, q \in Procs :
    /\ p # q
    /\ plain = 0
    /\ pc[p] = "done"
    /\ op[p].name = "locked_read_file"
    /\ ret[p].status /\ ~ret[p].absent
    /\ ret[p].text \in CompleteTexts
    /\ pc[q] = "acquire"
    /\ op[q].name \in WriteOps

====
